---- MODULE Spec2Model ----
(***************************************************************************)
(* Model of wave_animation_fdm.ipynb: explicit finite-difference solution  *)
(* of the damped wave equation  u_tt + k u_t = c^2 u_xx  on [0, L] with    *)
(* u(0,t) = phi(t), u(L,t) = 0, u(x,0) = f(x), u_t(x,0) = g(x).            *)
(*                                                                         *)
(* The notebook's cells run top to bottom; each cell (and, for the grid    *)
(* cell and the time loop, each statement / iteration) is one action.      *)
(* Real numbers are modelled as exact rationals <<num, den>> in lowest     *)
(* terms with den > 0, so floating-point rounding is not part of the model.*)
(***************************************************************************)
EXTENDS Integers, Sequences, FiniteSets, TLC

VARIABLES
    L, c, k, t_total, fps_play,  \* the constants cell's physical parameters
    nx, x_array, t_array, dx, dt, \* the constants cell's derived values
    f, g, phi,                   \* f(x_array), g(x_array), phi(t_array)
    u_x_t,                       \* the solution grid u_x_t[j][l]
    factor1, factor2, factor3,   \* the run-constant factors of the stepper
    l,                           \* the time loop's index
    pc,                          \* position in the notebook
    err,                         \* the exception that stopped the run
    rows_written,                \* history: the rows the time loop wrote, in order
    read_log,                    \* history: cell |-> value, as the time loop read it
    cells_done                   \* per-cell stepping: the cells of row l+1 done

vars == <<L, c, k, t_total, fps_play, nx, x_array, t_array, dx, dt,
          f, g, phi, u_x_t, factor1, factor2, factor3, l, pc, err,
          rows_written, read_log, cells_done>>

\* the history variables
hist == <<rows_written, read_log>>

(***************************************************************************)
(* Bounds of the model.                                                    *)
(***************************************************************************)
MaxL == 3
MaxC == 2
MaxFps == 2
MaxT == 2
MaxNx == 4
MaxNt == 4

\* sample values of f, g and phi at the grid points
Vals == {0, 1}

\* damping coefficients: none, and the notebook's k = 0.2
KVals == {<<0, 1>>, <<1, 5>>}

(***************************************************************************)
(* Exact rational arithmetic standing for the notebook's float arithmetic. *)
(***************************************************************************)
Abs(n) == IF n < 0 THEN -n ELSE n

RECURSIVE GCD(_, _)
GCD(a, b) == IF b = 0 THEN a ELSE GCD(b, a % b)

\* n/d with common factor h removed and the sign carried by the numerator
Reduce(n, d, h) == IF d < 0 THEN <<(-n) \div h, (-d) \div h>> ELSE <<n \div h, d \div h>>

Norm(n, d) == Reduce(n, d, GCD(Abs(n), Abs(d)))

R(i) == <<i, 1>>
RAdd(a, b) == Norm(a[1] * b[2] + b[1] * a[2], a[2] * b[2])
RSub(a, b) == Norm(a[1] * b[2] - b[1] * a[2], a[2] * b[2])
RMul(a, b) == Norm(a[1] * b[1], a[2] * b[2])
RDiv(a, b) == Norm(a[1] * b[2], a[2] * b[1])
RLeq(a, b) == a[1] * b[2] <= b[1] * a[2]

\* int(x) of Python for x = n/d: truncation toward zero
IntTrunc(n, d) ==
    LET q == Abs(n) \div Abs(d)
    IN  IF (n < 0) # (d < 0) THEN -q ELSE q

Len0(a) == Cardinality(DOMAIN a)

None == <<>>

(***************************************************************************)
(* The constants cell.                                                     *)
(***************************************************************************)
\* nx = int(L / (c / fps_play))
NxCeilPlus1(pL, pc_, pfps) ==
    LET q == IntTrunc(pL * pfps, pc_)
    IN  (IF q * pc_ = pL * pfps THEN q ELSE q + 1) + 1

NxOf(pL, pc_, pfps) == IntTrunc(pL * pfps, pc_)

\* np.linspace(0, L, nx): nx uniform points, both end points included
Linspace(pL, n) ==
    [j \in 0..(n - 1) |-> IF n = 1 THEN R(0) ELSE Norm(j * pL, n - 1)]

\* len(np.arange(0, t_total, 1/fps_play)) = max(0, ceil(t_total * fps_play))
NtOf(pT, pfps) == IF pT * pfps > 0 THEN pT * pfps ELSE 0

\* np.arange(0, t_total, 1/fps_play)
Arange(pT, pfps) == [m \in 0..(NtOf(pT, pfps) - 1) |-> Norm(m, pfps)]

\* the exception the constants cell raises, or "none"
ConstantsError(pL, pc_, pT, pfps) ==
    IF pfps = 0 THEN "ZeroDivisionError"            \* c / fps_play
    ELSE IF pc_ = 0 THEN "ZeroDivisionError"        \* L / (c / fps_play)
    ELSE IF NxOf(pL, pc_, pfps) < 0 THEN "ValueError"   \* np.linspace
    ELSE IF NxOf(pL, pc_, pfps) < 2 THEN "IndexError"   \* x_array[1]
    ELSE IF NtOf(pT, pfps) < 2 THEN "IndexError"        \* t_array[1]
    ELSE "none"

\* the parameters the model explores: the derived grid fits the bounds
InBounds(pL, pc_, pT, pfps) ==
    (pfps # 0 /\ pc_ # 0) =>
        /\ NxOf(pL, pc_, pfps) <= MaxNx
        /\ NtOf(pT, pfps) <= MaxNt

Init ==
    /\ L \in (-1)..MaxL
    /\ c \in (-1)..MaxC
    /\ t_total \in (-1)..MaxT
    /\ fps_play \in (-1)..MaxFps
    /\ k \in KVals
    /\ InBounds(L, c, t_total, fps_play)
    /\ nx = 0
    /\ x_array = None
    /\ t_array = None
    /\ dx = None
    /\ dt = None
    /\ f = None
    /\ g = None
    /\ phi = None
    /\ u_x_t = None
    /\ factor1 = None
    /\ factor2 = None
    /\ factor3 = None
    /\ l = 0
    /\ pc = "constants"
    /\ err = "none"
    /\ rows_written = <<>>
    /\ read_log = <<>>
    /\ cells_done = {}

ConstantsCell ==
    /\ pc = "constants"
    /\ ConstantsError(L, c, t_total, fps_play) = "none"
    /\ nx' = NxOf(L, c, fps_play)
    /\ x_array' = Linspace(L, nx')
    /\ t_array' = Arange(t_total, fps_play)
    /\ dx' = RSub(x_array'[1], x_array'[0])
    /\ dt' = RSub(t_array'[1], t_array'[0])
    /\ pc' = "functions"
    /\ UNCHANGED <<L, c, k, t_total, fps_play, f, g, phi, u_x_t,
                   factor1, factor2, factor3, l, err>>
    /\ UNCHANGED <<hist, cells_done>>

ConstantsCellRaises ==
    /\ pc = "constants"
    /\ ConstantsError(L, c, t_total, fps_play) # "none"
    /\ err' = ConstantsError(L, c, t_total, fps_play)
    /\ pc' = "failed"
    /\ UNCHANGED <<L, c, k, t_total, fps_play, nx, x_array, t_array, dx, dt,
                   f, g, phi, u_x_t, factor1, factor2, factor3, l>>
    /\ UNCHANGED <<hist, cells_done>>

(***************************************************************************)
(* The cell defining phi, f and g: any functions, sampled on the axes.     *)
(***************************************************************************)
DefineFunctions ==
    /\ pc = "functions"
    /\ f' \in [DOMAIN x_array -> Vals]
    /\ g' \in [DOMAIN x_array -> Vals]
    /\ phi' \in [DOMAIN t_array -> Vals]
    /\ pc' = "alloc"
    /\ UNCHANGED <<L, c, k, t_total, fps_play, nx, x_array, t_array, dx, dt,
                   u_x_t, factor1, factor2, factor3, l, err>>
    /\ UNCHANGED <<hist, cells_done>>

(***************************************************************************)
(* The solution grid cell.                                                 *)
(***************************************************************************)
\* np.zeros((len(x_array), len(t_array)))
ZerosUninit(xs, ts) == [j \in DOMAIN xs |-> [m \in DOMAIN ts |-> R(1)]]

Zeros(xs, ts) == [j \in DOMAIN xs |-> [m \in DOMAIN ts |-> R(0)]]

\* u_x_t[:, 0] = f(x_array)
SeedRow0Interior(u, fv) ==
    [j \in DOMAIN u |->
        IF j >= 1 /\ j <= Len0(u) - 2 THEN [u[j] EXCEPT ![0] = R(fv[j])]
        ELSE u[j]]

SeedRow0(u, fv) == [j \in DOMAIN u |-> [u[j] EXCEPT ![0] = R(fv[j])]]

\* u_x_t[:, 1] = g(x_array)*dt + f(x_array)
SeedRow1NoF(u, fv, gv, pdt) ==
    [j \in DOMAIN u |-> [u[j] EXCEPT ![1] = RMul(R(gv[j]), pdt)]]

SeedRow1(u, fv, gv, pdt) ==
    [j \in DOMAIN u |->
        [u[j] EXCEPT ![1] = RAdd(RMul(R(gv[j]), pdt), R(fv[j]))]]

\* u_x_t[0, :] = phi(t_array)
SeedBoundaryFrom2(u, pv) ==
    [u EXCEPT ![0] = [m \in DOMAIN u[0] |-> IF m >= 2 THEN R(pv[m]) ELSE u[0][m]]]

SeedBoundaryTwoColumns(u, pv) ==
    [j \in DOMAIN u |->
        IF j <= 1 THEN [m \in DOMAIN u[j] |-> R(pv[m])] ELSE u[j]]

SeedBoundary(u, pv) == [u EXCEPT ![0] = [m \in DOMAIN u[0] |-> R(pv[m])]]

Allocate ==
    /\ pc = "alloc"
    /\ u_x_t' = Zeros(x_array, t_array)
    /\ pc' = "row0"
    /\ UNCHANGED <<L, c, k, t_total, fps_play, nx, x_array, t_array, dx, dt,
                   f, g, phi, factor1, factor2, factor3, l, err>>
    /\ UNCHANGED <<hist, cells_done>>

InitialDisplacement ==
    /\ pc = "row0"
    /\ u_x_t' = SeedRow0(u_x_t, f)
    /\ pc' = "row1"
    /\ UNCHANGED <<L, c, k, t_total, fps_play, nx, x_array, t_array, dx, dt,
                   f, g, phi, factor1, factor2, factor3, l, err>>
    /\ UNCHANGED <<hist, cells_done>>

InitialVelocity ==
    /\ pc = "row1"
    /\ u_x_t' = SeedRow1(u_x_t, f, g, dt)
    /\ pc' = "boundary"
    /\ UNCHANGED <<L, c, k, t_total, fps_play, nx, x_array, t_array, dx, dt,
                   f, g, phi, factor1, factor2, factor3, l, err>>
    /\ UNCHANGED <<hist, cells_done>>

BoundaryCondition ==
    /\ pc = "boundary"
    /\ u_x_t' = SeedBoundary(u_x_t, phi)
    /\ pc' = "factors"
    /\ UNCHANGED <<L, c, k, t_total, fps_play, nx, x_array, t_array, dx, dt,
                   f, g, phi, factor1, factor2, factor3, l, err>>
    /\ UNCHANGED <<hist, cells_done>>

(***************************************************************************)
(* The explicit time-evolution cell.                                       *)
(***************************************************************************)
\* factor1 = (1 + k*dt/2)**-1
Factor1Of(pk, pdt) == RDiv(R(1), RAdd(R(1), RDiv(RMul(pk, pdt), R(2))))

\* factor2 = (c*dt/dx)**2
Factor2Of(pc_, pdt, pdx) ==
    LET r == RDiv(RMul(R(pc_), pdt), pdx) IN RMul(r, r)

\* factor3 = k*dt/2
Factor3Of(pk, pdt) == RDiv(RMul(pk, pdt), R(2))

\* one interior cell of row m+1 from rows m and m-1
UpdateDropsDampingTerm(u, j, m, f1, f2, f3) ==
    RMul(f1,
         RSub(RAdd(RMul(f2, RAdd(RSub(u[j + 1][m],
                                      RMul(R(2), u[j][m])),
                                 u[j - 1][m])),
                   RMul(R(2), u[j][m])),
              u[j][m - 1]))

UpdateGaussSeidel(u, j, m, f1, f2, f3) ==
    RMul(f1,
         RAdd(RSub(RAdd(RMul(f2, RAdd(RSub(u[j + 1][m],
                                           RMul(R(2), u[j][m])),
                                      u[j - 1][m + 1])),
                        RMul(R(2), u[j][m])),
                   u[j][m - 1]),
              RMul(f3, u[j][m - 1])))

UpdatePlusPrev(u, j, m, f1, f2, f3) ==
    RMul(f1,
         RAdd(RAdd(RAdd(RMul(f2, RAdd(RSub(u[j + 1][m],
                                           RMul(R(2), u[j][m])),
                                      u[j - 1][m])),
                        RMul(R(2), u[j][m])),
                   u[j][m - 1]),
              RMul(f3, u[j][m - 1])))

Update(u, j, m, f1, f2, f3) ==
    RMul(f1,
         RAdd(RSub(RAdd(RMul(f2, RAdd(RSub(u[j + 1][m],
                                           RMul(R(2), u[j][m])),
                                      u[j - 1][m])),
                        RMul(R(2), u[j][m])),
                   u[j][m - 1]),
              RMul(f3, u[j][m - 1])))

\* the row that iteration m writes: u_x_t[1:-1, m+1]
RowWritten(m) == m + 1

\* u_x_t[1:-1, m+1] = factor1 * (...): the whole-row update of one iteration
StepRowInPlace(u, m, f1, f2, f3) ==
    [j \in DOMAIN u |->
        IF j >= 1 /\ j <= Len0(u) - 2
        THEN [u[j] EXCEPT ![m] = Update(u, j, m, f1, f2, f3)]
        ELSE u[j]]

StepRowShifted(u, m, f1, f2, f3) ==
    [j \in DOMAIN u |->
        IF j >= 2
        THEN [u[j] EXCEPT ![RowWritten(m)] = Update(u, j - 1, m, f1, f2, f3)]
        ELSE u[j]]

StepRowClampsBoundary(u, m, f1, f2, f3) ==
    [j \in DOMAIN u |->
        IF j >= 1 /\ j <= Len0(u) - 2
        THEN [u[j] EXCEPT ![RowWritten(m)] = Update(u, j, m, f1, f2, f3)]
        ELSE [u[j] EXCEPT ![RowWritten(m)] = R(0)]]

StepRow(u, m, f1, f2, f3) ==
    [j \in DOMAIN u |->
        IF j >= 1 /\ j <= Len0(u) - 2
        THEN [u[j] EXCEPT ![RowWritten(m)] = Update(u, j, m, f1, f2, f3)]
        ELSE u[j]]

\* the cells the right-hand side of iteration m reads: the slices
\* u_x_t[2:, m], u_x_t[1:-1, m], u_x_t[:-2, m] and u_x_t[1:-1, m-1]
StepReads(u, m) ==
    LET n == Len0(u)
    IN  {<<j, m>> : j \in IF n >= 3 THEN 0..(n - 1) ELSE {}}
        \cup {<<j, m - 1>> : j \in 1..(n - 2)}

\* the log extended by the cells read from u, at the values read
Logged(log, u, cells) ==
    [cell \in (DOMAIN log) \cup cells |->
        IF cell \in DOMAIN log THEN log[cell] ELSE u[cell[1]][cell[2]]]

\* range(1, len(t_array)-1): its last value
LastStepShort(ts) == Len0(ts) - 3

LastStep(ts) == Len0(ts) - 2

ComputeFactors ==
    /\ pc = "factors"
    /\ factor1' = Factor1Of(k, dt)
    /\ factor2' = Factor2Of(c, dt, dx)
    /\ factor3' = Factor3Of(k, dt)
    /\ l' = 1
    /\ pc' = "loop"
    /\ UNCHANGED <<L, c, k, t_total, fps_play, nx, x_array, t_array, dx, dt,
                   f, g, phi, u_x_t, err>>
    /\ UNCHANGED <<hist, cells_done>>

\* one iteration of  for l in range(1, len(t_array)-1)
Step ==
    /\ pc = "loop"
    /\ l <= LastStep(t_array)
    /\ u_x_t' = StepRow(u_x_t, l, factor1, factor2, factor3)
    /\ l' = l + 1
    /\ rows_written' = Append(rows_written, RowWritten(l))
    /\ read_log' = Logged(read_log, u_x_t, StepReads(u_x_t, l))
    /\ UNCHANGED cells_done
    /\ UNCHANGED <<L, c, k, t_total, fps_play, nx, x_array, t_array, dx, dt,
                   f, g, phi, factor1, factor2, factor3, pc, err>>

\* the range is exhausted
LoopExit ==
    /\ pc = "loop"
    /\ l > LastStep(t_array)
    /\ pc' = "done"
    /\ UNCHANGED <<L, c, k, t_total, fps_play, nx, x_array, t_array, dx, dt,
                   f, g, phi, u_x_t, factor1, factor2, factor3, l, err>>
    /\ UNCHANGED <<hist, cells_done>>

Next ==
    \/ ConstantsCell
    \/ ConstantsCellRaises
    \/ DefineFunctions
    \/ Allocate
    \/ InitialDisplacement
    \/ InitialVelocity
    \/ BoundaryCondition
    \/ ComputeFactors
    \/ Step
    \/ LoopExit

Spec == Init /\ [][Next]_vars

(***************************************************************************)
(* The run with the same parameters, f and g but another boundary function.*)
(***************************************************************************)
\* the grid cell, start to end
Seeded(fv, gv, pv) ==
    SeedBoundary(SeedRow1(SeedRow0(Zeros(x_array, t_array), fv), fv, gv, dt), pv)

\* the time loop from iteration m on
RECURSIVE Stepper(_, _, _, _, _)
Stepper(u, m, f1, f2, f3) ==
    IF m > LastStep(t_array) THEN u
    ELSE Stepper(StepRow(u, m, f1, f2, f3), m + 1, f1, f2, f3)

\* the finished grid of a whole run
Run(fv, gv, pv) ==
    Stepper(Seeded(fv, gv, pv), 1,
            Factor1Of(k, dt), Factor2Of(c, dt, dx), Factor3Of(k, dt))

(***************************************************************************)
(* The time loop with the inner spatial loop split into one action per     *)
(* cell, taken in any order, and a barrier between consecutive time steps. *)
(***************************************************************************)
\* u_x_t[j, l+1] = factor1 * (...) for one interior j of the slice 1:-1
StepCell(j) ==
    /\ pc = "loop"
    /\ l <= LastStep(t_array)
    /\ j >= 1
    /\ j <= Len0(u_x_t) - 2
    /\ j \notin cells_done
    /\ u_x_t' = [u_x_t EXCEPT ![j][RowWritten(l)] =
                     Update(u_x_t, j, l, factor1, factor2, factor3)]
    /\ cells_done' = cells_done \cup {j}
    /\ UNCHANGED <<L, c, k, t_total, fps_play, nx, x_array, t_array, dx, dt,
                   f, g, phi, factor1, factor2, factor3, l, pc, err, hist>>

\* every cell of row l+1 is done: the loop moves to the next time step
Barrier ==
    /\ pc = "loop"
    /\ l <= LastStep(t_array)
    /\ cells_done = 1..(Len0(u_x_t) - 2)
    /\ l' = l + 1
    /\ cells_done' = {}
    /\ rows_written' = Append(rows_written, RowWritten(l))
    /\ UNCHANGED <<L, c, k, t_total, fps_play, nx, x_array, t_array, dx, dt,
                   f, g, phi, u_x_t, factor1, factor2, factor3, pc, err,
                   read_log>>

NextPar ==
    \/ ConstantsCell
    \/ ConstantsCellRaises
    \/ DefineFunctions
    \/ Allocate
    \/ InitialDisplacement
    \/ InitialVelocity
    \/ BoundaryCondition
    \/ ComputeFactors
    \/ \E j \in DOMAIN x_array : StepCell(j)
    \/ Barrier
    \/ LoopExit

SpecPar == Init /\ [][NextPar]_vars

(***************************************************************************)
(* The rolling-buffer stepper of the design notes: only the two most       *)
(* recent time-rows are kept, and every finished row is emitted.           *)
(***************************************************************************)
\* row 0 as the condition appliers leave it
RollingRow0(fv, pv) ==
    [j \in DOMAIN fv |-> IF j = 0 THEN R(pv[0]) ELSE R(fv[j])]

\* row 1 as the condition appliers leave it
RollingRow1(fv, gv, pv) ==
    [j \in DOMAIN fv |->
        IF j = 0 THEN R(pv[1])
        ELSE Norm(gv[j] * dt[1] + fv[j] * dt[2], dt[2])]

\* row m+1 from the buffer: prev is row m-1, cur is row m
RollingNext(prev, cur, m, pv) ==
    LET n == Len0(cur)
        kdt2 == RDiv(RMul(k, dt), R(2))
        r == RDiv(RMul(R(c), dt), dx)
    IN  [j \in DOMAIN cur |->
            IF j = 0 THEN R(pv[m + 1])
            ELSE IF j = n - 1 THEN R(0)
            ELSE RDiv(RAdd(RMul(RMul(r, r),
                                RAdd(RSub(cur[j + 1], RMul(R(2), cur[j])),
                                     cur[j - 1])),
                           RSub(RMul(R(2), cur[j]),
                                RMul(RSub(R(1), kdt2), prev[j]))),
                      RAdd(R(1), kdt2))]

\* the rows emitted from time step m on, after those in out
RECURSIVE RollingEmit(_, _, _, _, _)
RollingEmit(prev, cur, m, pv, out) ==
    IF m > Len0(pv) - 2 THEN out
    ELSE RollingEmit(cur, RollingNext(prev, cur, m, pv), m + 1, pv,
                     Append(out, RollingNext(prev, cur, m, pv)))

\* all the rows the rolling-buffer stepper emits, in order
Rolling(fv, gv, pv) ==
    RollingEmit(RollingRow0(fv, pv), RollingRow1(fv, gv, pv), 1, pv,
                <<RollingRow0(fv, pv), RollingRow1(fv, gv, pv)>>)

(***************************************************************************)
(* Properties.                                                             *)
(***************************************************************************)
\* spec 4.1 / 7: the parameters a run accepts
ValidParameters ==
    /\ L > 0
    /\ c > 0
    /\ t_total > 0
    /\ fps_play > 0
    /\ NxOf(L, c, fps_play) >= 3

Computed == pc \notin {"constants", "failed"}

Interior == 1..(nx - 2)

\* the Courant number c*dt/dx
Courant == RMul(R(c), RDiv(dt, dx))

\* C1: for valid parameters the computed discretization satisfies the CFL
\* equality c*dt/dx = 1 exactly.
C1_CFLEquality == (Computed /\ ValidParameters) => Courant = R(1)

\* C2: for valid parameters the computed discretization satisfies the CFL
\* stability condition c*dt/dx <= 1; the stepper never runs with c*dt/dx > 1.
C2_CFLStable == (Computed /\ ValidParameters) => RLeq(Courant, R(1))

C2_Witness == pc = "loop" /\ l >= 2 /\ ValidParameters /\ Courant # R(1)

\* C3: after the run, u[0, m] = phi(t_m) for every time index m, rows 0 and
\* 1 included, whatever f, g and phi are.
C3_LeftBoundary ==
    pc = "done" => \A m \in DOMAIN t_array : u_x_t[0][m] = R(phi[m])

C3_Witness ==
    /\ pc = "done"
    /\ ValidParameters
    /\ Len0(t_array) >= 3
    /\ R(f[0]) # R(phi[0])
    /\ RAdd(RMul(R(g[0]), dt), R(f[0])) # R(phi[1])

\* C4: after the run, u[nx-1, m] = 0 for every time index m and any f, g:
\* the right boundary column is never written.
C4_RightBoundary ==
    (pc = "done" /\ ValidParameters) =>
        \A m \in DOMAIN t_array : u_x_t[nx - 1][m] = R(0)

C6_InitialVelocity ==
    pc \in {"boundary", "factors", "loop", "done"} =>
        \A j \in Interior :
            u_x_t[j][1] = Norm(g[j] * dt[1] + f[j] * dt[2], dt[2])

C6_Witness ==
    /\ pc = "done"
    /\ ValidParameters
    /\ Len0(t_array) >= 3
    /\ \E j \in Interior : g[j] = 1 /\ f[j] = 1 /\ u_x_t[j][2] # u_x_t[j][1]

\* C7: after the run, for 1 <= m <= nt-2 and interior j,
\* u[j, m+1] = factor1*(factor2*(u[j+1,m] - 2u[j,m] + u[j-1,m]) + 2u[j,m]
\*             - u[j,m-1] + factor3*u[j,m-1])
\* with factor1 = 1/(1 + k*dt/2), factor2 = (c*dt/dx)^2, factor3 = k*dt/2.
C7_Recurrence ==
    pc = "done" =>
        LET kdt2 == RDiv(RMul(k, dt), R(2))
            f1 == RDiv(R(1), RAdd(R(1), kdt2))
            f2 == RMul(Courant, Courant)
            lap(j, m) == RAdd(RSub(u_x_t[j + 1][m], RMul(R(2), u_x_t[j][m])),
                              u_x_t[j - 1][m])
            rhs(j, m) ==
                RMul(f1, RAdd(RMul(f2, lap(j, m)),
                              RAdd(RSub(RMul(R(2), u_x_t[j][m]),
                                        u_x_t[j][m - 1]),
                                   RMul(kdt2, u_x_t[j][m - 1]))))
        IN  \A m \in 1..(Len0(t_array) - 2) : \A j \in Interior :
                u_x_t[j][m + 1] = rhs(j, m)

C7_Witness ==
    /\ pc = "done"
    /\ ValidParameters
    /\ Len0(t_array) >= 4
    /\ nx >= 4
    /\ k # R(0)
    /\ \E j \in Interior : u_x_t[j][1] # R(0) /\ u_x_t[j][2] # R(0)
                           /\ u_x_t[j][3] # R(0)

ZeroInput ==
    /\ \A j \in DOMAIN f : f[j] = 0 /\ g[j] = 0
    /\ \A m \in DOMAIN phi : phi[m] = 0

\* C8: if f = 0, g = 0 and phi = 0 then after the run every cell of the grid
\* is 0, for any k >= 0.
C8_ZeroInput ==
    (pc = "done" /\ ZeroInput) =>
        \A j \in DOMAIN x_array : \A m \in DOMAIN t_array : u_x_t[j][m] = R(0)

C8_Witness ==
    /\ pc = "done"
    /\ ZeroInput
    /\ ValidParameters
    /\ Len0(t_array) >= 3
    /\ k # R(0)

\* rows 0 and 1 of a grid away from the left boundary
InitialRows(u) == [j \in 1..(Len0(u) - 1) |-> <<u[j][0], u[j][1]>>]

\* boundary functions to compare a run with: the zero function, and the one
\* that differs from pv at every time index
OtherBoundaries(pv) ==
    {[m \in DOMAIN pv |-> 0], [m \in DOMAIN pv |-> 1 - pv[m]]}

\* C9: two runs with the same parameters, f and g but different boundary
\* functions have the same u[j, 0] and u[j, 1] for every j > 0.  Every
\* boundary function is the phi of some reachable run, so all runs agree
\* pairwise exactly when each agrees with the run under the zero boundary.
C9_BoundaryOnlyChange ==
    pc = "done" =>
        \A pv \in OtherBoundaries(phi) :
            InitialRows(Run(f, g, pv)) = InitialRows(u_x_t)

C9_Witness ==
    /\ pc = "done"
    /\ ValidParameters
    /\ Len0(t_array) >= 3
    /\ phi[0] = 1
    /\ phi[1] = 1
    /\ \E j \in 1..(nx - 1) : f[j] = 1 /\ g[j] = 1
    /\ \A pv \in OtherBoundaries(phi) : Run(f, g, pv) # u_x_t

\* C10: when L, c, T or fps is not strictly positive, or the derived nx is
\* below 3, the run fails before the grid is allocated: no grid is produced
\* and no step is taken.
C10_InvalidFailsBeforeAllocation ==
    ~ValidParameters => (u_x_t = None /\ l = 0)

\* C12: the time loop starts at l = 1, advances l by exactly 1 per step and
\* stops after the step l = nt-2: the rows it writes are exactly
\* 2, 3, ..., nt-1, in increasing order, each once, for every nt >= 2.
C12_RowsWrittenInOrder ==
    /\ pc = "loop" =>
        /\ l >= 1
        /\ rows_written = [i \in 1..(l - 1) |-> i + 1]
    /\ pc = "done" =>
        rows_written = [i \in 1..(Len0(t_array) - 2) |-> i + 1]

C12_Witness ==
    /\ pc = "done"
    /\ ValidParameters
    /\ Len0(t_array) = MaxNt
    /\ Len(rows_written) = MaxNt - 2

\* C13: every cell the time loop has read (rows l-1 and l of step l, the
\* left boundary cell and the seeded rows 0 and 1 included) still holds the
\* value it had when read, so it was final at the read; and from the first
\* step on rows 0 and 1 and the whole boundary column hold their seeds.
C13_ReadsAreFinal ==
    /\ \A cell \in DOMAIN read_log :
           u_x_t[cell[1]][cell[2]] = read_log[cell]
    /\ pc \in {"loop", "done"} =>
        /\ \A m \in DOMAIN t_array : u_x_t[0][m] = R(phi[m])
        /\ \A j \in 1..(nx - 1) :
              /\ u_x_t[j][0] = R(f[j])
              /\ u_x_t[j][1] = RAdd(RMul(R(g[j]), dt), R(f[j]))

C13_Witness ==
    /\ pc = "done"
    /\ ValidParameters
    /\ Len0(t_array) >= 4
    /\ <<0, 2>> \in DOMAIN read_log
    /\ read_log[<<0, 2>>] # R(0)
    /\ \E j \in Interior :
          /\ <<j, 2>> \in DOMAIN read_log
          /\ read_log[<<j, 2>>] # R(0)
          /\ read_log[<<j, 1>>] # R(0)

\* C14: a step of the time loop leaves both boundary columns and the rows
\* 0..l unchanged: it changes no cell other than u[j, l+1], 1 <= j <= nx-2.
C14_StepFrame ==
    [][(pc = "loop" /\ l' = l + 1) =>
          \A j \in DOMAIN x_array : \A m \in DOMAIN t_array :
              (j = 0 \/ j = nx - 1 \/ m # l + 1) =>
                  u_x_t'[j][m] = u_x_t[j][m]]_vars

C14_Witness ==
    /\ pc = "loop"
    /\ l >= 2
    /\ ValidParameters
    /\ u_x_t[0][l] # R(0)
    /\ u_x_t[nx - 1][1] # R(0)
    /\ \E j \in Interior : u_x_t[j][l] # u_x_t[j][l - 1]

\* C15: within one time step the interior updates are independent: taken
\* as separate per-cell actions in any order, with a barrier between time
\* steps, they give the same rows, and the same final grid, as the
\* sequential whole-row update.
C15_AnyOrderSameGrid ==
    /\ (pc = "loop" /\ cells_done = 1..(nx - 2) /\ l <= LastStep(t_array)) =>
          u_x_t = StepRow(u_x_t, l, factor1, factor2, factor3)
    /\ pc = "done" => u_x_t = Run(f, g, phi)

C15_Witness ==
    /\ pc = "done"
    /\ ValidParameters
    /\ nx >= 4
    /\ Len0(t_array) >= 4
    /\ \A j \in Interior : u_x_t[j][2] # R(0) /\ u_x_t[j][3] # R(0)
    /\ u_x_t[1][3] # u_x_t[2][3]

\* time-slice m of the grid
TimeSlice(u, m) == [j \in DOMAIN u |-> u[j][m]]

C17_FinitePropagation ==
    (pc = "done" /\ \A j \in DOMAIN f : f[j] = 0 /\ g[j] = 0) =>
        \A j \in DOMAIN x_array : \A m \in DOMAIN t_array :
            (j >= 1 /\ j >= m) => u_x_t[j][m] = R(0)

C17_Witness ==
    /\ pc = "done"
    /\ ValidParameters
    /\ \A j \in DOMAIN f : f[j] = 0 /\ g[j] = 0
    /\ nx >= 4
    /\ Len0(t_array) >= 4
    /\ phi[0] = 1
    /\ phi[1] = 1
    /\ u_x_t[1][2] # R(0)
    /\ u_x_t[2][3] # R(0)

====
